---- MODULE Spec2Model ----
(***************************************************************************)
(* Model of ChessVar.py ("Dodo chess"): the 8x8 board, the four piece      *)
(* kinds with their cached legal-move sets, the two players with their     *)
(* aggregate move sets, and ChessVar.make_move with its rollback and its   *)
(* end-of-game logic.                                                      *)
(*                                                                         *)
(* A coordinate such as "a7" is the sequence of its characters <<"a","7">>;*)
(* a board index is the pair <<row, col>>.  A chess piece is the record of *)
(* its owner's color, its type and its id; an empty cell holds None.       *)
(***************************************************************************)
EXTENDS Integers, Sequences, FiniteSets

VARIABLES
    game_state,                      \* ChessVar._game_state
    game_board,                      \* ChessVar._game_board, [<<row, col>> -> piece or None]
    whos_turn_it_is,                 \* ChessVar._whos_turn_it_is, a color
    players_with_kings_in_last_row,  \* ChessVar._players_with_kings_in_last_row, a list of colors
    chess_pieces,                    \* Player._chess_pieces, per color
    all_valid_moves,                 \* Player._all_valid_moves, per color
    king,                            \* Player._king, per color
    current_coord,                   \* ChessPiece._current_coord, per piece
    valid_moves,                     \* ChessPiece._valid_moves, per piece
    source_coord,                    \* first argument of the last make_move call
    dest_coord,                      \* second argument of the last make_move call
    ret,                             \* outcome of the last call: "True", "False", "raise"; "none" before any call
    exit_line,                       \* line of ChessVar.py at which the last call ended (0 before any call)
    moves_made                       \* number of calls that have returned True

vars == <<game_state, game_board, whos_turn_it_is, players_with_kings_in_last_row,
          chess_pieces, all_valid_moves, king, current_coord, valid_moves,
          source_coord, dest_coord, ret, exit_line, moves_made>>

\* What the game itself holds: everything but the record of the last call.
game_vars == <<game_state, game_board, whos_turn_it_is, players_with_kings_in_last_row,
               chess_pieces, all_valid_moves, king, current_coord, valid_moves>>

----------------------------------------------------------------------------
(* Bounds of the model *)

\* make_move is no longer called once this many calls have returned True.
MaxMoves == 3

----------------------------------------------------------------------------
(* Coordinates *)

Players == {"WHITE", "BLACK"}

None == [player |-> "NONE", type |-> "NONE", id |-> 0]

_MAX_COLUMN == 7
_MIN_COLUMN == 0
_MAX_ROW == 7
_MIN_ROW == 0

Files == {"a", "b", "c", "d", "e", "f", "g", "h"}
Ranks == {"1", "2", "3", "4", "5", "6", "7", "8"}

\* The well-formed coordinates: a file letter followed by a rank digit.
Coords == {<<f, r>> : f \in Files, r \in Ranks}

Indexes == (0..7) \X (0..7)

pos_on_board(row_index, col_index) ==
    IF col_index < _MIN_COLUMN \/ col_index > _MAX_COLUMN THEN FALSE
    ELSE IF row_index < _MIN_ROW \/ row_index > _MAX_ROW THEN FALSE
    ELSE TRUE

\* row_conversion counting the ranks from the top: row 0 as rank 1.
row_conversion_not_flipped ==
    [r \in 0..7 |-> CASE r = 0 -> "1" [] r = 1 -> "2" [] r = 2 -> "3" [] r = 3 -> "4"
                      [] r = 4 -> "5" [] r = 5 -> "6" [] r = 6 -> "7" [] r = 7 -> "8"]

row_conversion ==
    [r \in 0..7 |-> CASE r = 7 -> "1" [] r = 6 -> "2" [] r = 5 -> "3" [] r = 4 -> "4"
                      [] r = 3 -> "5" [] r = 2 -> "6" [] r = 1 -> "7" [] r = 0 -> "8"]

col_conversion ==
    [c \in 0..7 |-> CASE c = 0 -> "a" [] c = 1 -> "b" [] c = 2 -> "c" [] c = 3 -> "d"
                      [] c = 4 -> "e" [] c = 5 -> "f" [] c = 6 -> "g" [] c = 7 -> "h"]

get_coord_from_index(position_index) ==
    LET row_index == position_index[1]
        col_index == position_index[2]
    IN  <<col_conversion[col_index], row_conversion[row_index]>>

\* board_index counting the ranks from the top: "1" as row 0 up to "8" as
\* row 7.
board_index_rank_not_flipped ==
    [ch \in Files \cup Ranks |->
        CASE ch = "a" -> 0 [] ch = "b" -> 1 [] ch = "c" -> 2 [] ch = "d" -> 3
          [] ch = "e" -> 4 [] ch = "f" -> 5 [] ch = "g" -> 6 [] ch = "h" -> 7
          [] ch = "1" -> 0 [] ch = "2" -> 1 [] ch = "3" -> 2 [] ch = "4" -> 3
          [] ch = "5" -> 4 [] ch = "6" -> 5 [] ch = "7" -> 6 [] ch = "8" -> 7]

board_index ==
    [ch \in Files \cup Ranks |->
        CASE ch = "a" -> 0 [] ch = "b" -> 1 [] ch = "c" -> 2 [] ch = "d" -> 3
          [] ch = "e" -> 4 [] ch = "f" -> 5 [] ch = "g" -> 6 [] ch = "h" -> 7
          [] ch = "1" -> 7 [] ch = "2" -> 6 [] ch = "3" -> 5 [] ch = "4" -> 4
          [] ch = "5" -> 3 [] ch = "6" -> 2 [] ch = "7" -> 1 [] ch = "8" -> 0]

get_index_from_coord(coord) ==
    LET col_letter == coord[1]
        row_number == coord[2]
    IN  <<board_index[row_number], board_index[col_letter]>>

\* get_index_from_coord raises instead of returning: ValueError at line 961
\* when the string does not unpack into two characters, KeyError at line 981
\* when a character is not a key of board_index.
get_index_from_coord_raises(coord) ==
    \/ Len(coord) # 2
    \/ coord[2] \notin DOMAIN board_index
    \/ coord[1] \notin DOMAIN board_index

----------------------------------------------------------------------------
(* Pieces: the cached legal-move set of one piece against a board *)

KnightOffsets == {<<-2, 1>>, <<-1, 2>>, <<1, 2>>, <<2, 1>>,
                  <<2, -1>>, <<1, -2>>, <<-1, -2>>, <<-2, -1>>}

KingOffsets == {<<-1, 0>>, <<-1, 1>>, <<0, 1>>, <<1, 1>>,
                <<1, 0>>, <<1, -1>>, <<0, -1>>, <<-1, -1>>}

BishopOffsets == {<<-1, 1>>, <<1, 1>>, <<1, -1>>, <<-1, -1>>}

RookOffsets == {<<-1, 0>>, <<0, 1>>, <<1, 0>>, <<0, -1>>}

\* _update_single_square_moves without the test of lines 728-731: a target
\* held by a friendly piece is added like one held by the other player.
SingleSquare_with_friendly_cells(player, coord, offset, board) ==
    LET current_row_index == get_index_from_coord(coord)[1] + offset[1]
        current_col_index == get_index_from_coord(coord)[2] + offset[2]
    IN  IF ~pos_on_board(current_row_index, current_col_index) THEN {}
        ELSE {get_coord_from_index(<<current_row_index, current_col_index>>)}

\* One offset of a King or Knight of `player` standing on `coord`: the
\* target, if it is on the board and empty or held by the other player.
SingleSquare(player, coord, offset, board) ==
    LET current_row_index == get_index_from_coord(coord)[1] + offset[1]
        current_col_index == get_index_from_coord(coord)[2] + offset[2]
    IN  IF ~pos_on_board(current_row_index, current_col_index) THEN {}
        ELSE IF board[<<current_row_index, current_col_index>>] = None
             THEN {get_coord_from_index(<<current_row_index, current_col_index>>)}
        ELSE IF board[<<current_row_index, current_col_index>>].player # player
             THEN {get_coord_from_index(<<current_row_index, current_col_index>>)}
        ELSE {}

_update_single_square_moves(player, coord, direction_offsets, board) ==
    UNION {SingleSquare(player, coord, offset, board) : offset \in direction_offsets}

\* The while loop without the break of line 778: the ray goes on past a
\* piece of the other player.
RECURSIVE MultiSquare_without_break(_, _, _, _, _)
MultiSquare_without_break(player, current_row, current_col, offset, board) ==
    IF ~pos_on_board(current_row, current_col) THEN {}
    ELSE IF board[<<current_row, current_col>>] = None
            \/ board[<<current_row, current_col>>].player # player
         THEN {get_coord_from_index(<<current_row, current_col>>)}
              \cup MultiSquare_without_break(player, current_row + offset[1],
                                             current_col + offset[2], offset, board)
    ELSE {}

\* The while loop of _update_multi_square_moves for one direction, entered
\* at <<current_row, current_col>>.
RECURSIVE MultiSquare(_, _, _, _, _)
MultiSquare(player, current_row, current_col, offset, board) ==
    IF ~pos_on_board(current_row, current_col) THEN {}
    ELSE IF board[<<current_row, current_col>>] = None
         THEN {get_coord_from_index(<<current_row, current_col>>)}
              \cup MultiSquare(player, current_row + offset[1], current_col + offset[2],
                               offset, board)
    ELSE IF board[<<current_row, current_col>>].player # player
         THEN {get_coord_from_index(<<current_row, current_col>>)}
    ELSE {}

_update_multi_square_moves(player, coord, direction_offsets, board) ==
    UNION {MultiSquare(player,
                       get_index_from_coord(coord)[1] + offset[1],
                       get_index_from_coord(coord)[2] + offset[2],
                       offset, board) : offset \in direction_offsets}

\* ChessPiece.update_valid_moves, as overridden by Knight, King, Bishop and
\* Rook: the new value of the piece's _valid_moves.
piece_update_valid_moves(piece, coord, board) ==
    CASE piece.type = "KNIGHT" ->
            _update_single_square_moves(piece.player, coord, KnightOffsets, board)
      [] piece.type = "KING" ->
            _update_single_square_moves(piece.player, coord, KingOffsets, board)
      [] piece.type = "BISHOP" ->
            _update_multi_square_moves(piece.player, coord, BishopOffsets, board)
      [] piece.type = "ROOK" ->
            _update_multi_square_moves(piece.player, coord, RookOffsets, board)

----------------------------------------------------------------------------
(* Players: recomputation of the caches *)

\* Player.update_valid_moves, lines 524-525: every piece of the player's
\* collection recomputes its set; no other piece is touched.
update_pieces(color, pieces, coords, board, moves) ==
    [p \in DOMAIN moves |->
        IF p \in pieces[color] THEN piece_update_valid_moves(p, coords[p], board)
        ELSE moves[p]]

\* Lines 527-529 taking in the sets of the pieces of both players: the
\* aggregate of one player then depends on what the other last computed.
update_aggregate_of_both_players(color, pieces, moves) ==
    UNION {moves[p] : p \in pieces["WHITE"] \cup pieces["BLACK"]}

\* Player.update_valid_moves, lines 527-529: the aggregate is the union of
\* the sets of the pieces of the collection.
update_aggregate(color, pieces, moves) ==
    UNION {moves[p] : p \in pieces[color]}

\* Player.update_valid_moves with its two loops in the other order: the
\* aggregate is built from the sets the pieces had before they recompute.
_update_valid_moves_for_all_players_union_first(pieces, coords, board, moves, aggregates) ==
    LET white_moves == update_pieces("WHITE", pieces, coords, board, moves)
        white_all   == [aggregates EXCEPT !["WHITE"] =
                            update_aggregate("WHITE", pieces, moves)]
        black_moves == update_pieces("BLACK", pieces, coords, board, white_moves)
        black_all   == [white_all EXCEPT !["BLACK"] =
                            update_aggregate("BLACK", pieces, white_moves)]
    IN  [moves |-> black_moves, aggregates |-> black_all]

\* ChessVar._update_valid_moves_for_all_players: white, then black.  The
\* result is the pair of the per-piece caches and the per-player aggregates.
_update_valid_moves_for_all_players(pieces, coords, board, moves, aggregates) ==
    LET white_moves == update_pieces("WHITE", pieces, coords, board, moves)
        white_all   == [aggregates EXCEPT !["WHITE"] =
                            update_aggregate("WHITE", pieces, white_moves)]
        black_moves == update_pieces("BLACK", pieces, coords, board, white_moves)
        black_all   == [white_all EXCEPT !["BLACK"] =
                            update_aggregate("BLACK", pieces, black_moves)]
    IN  [moves |-> black_moves, aggregates |-> black_all]

----------------------------------------------------------------------------
(* Construction *)

\* A starting configuration the caller left out (Python's None).
Omitted == << <<"None", <<"-", "-">>, 0>> >>

\* The piece a configuration entry (piece type, starting coord, id) creates.
new_piece(color, entry) == [player |-> color, type |-> entry[1], id |-> entry[3]]

\* Player._initialize_start_configuration: the player's collection; empty
\* when the configuration is None.
start_pieces(color, starting_configuration) ==
    IF starting_configuration = Omitted THEN {}
    ELSE {new_piece(color, starting_configuration[i]) :
             i \in DOMAIN starting_configuration}

\* Player.__init__ and Player._initialize_start_configuration: _king is
\* the king created last, and None when no king is created.
start_king(color, starting_configuration) ==
    LET kings == {i \in DOMAIN starting_configuration :
                     starting_configuration[i][1] = "KING"}
    IN  IF kings = {} THEN None
        ELSE new_piece(color, starting_configuration[
                 CHOOSE i \in kings : \A j \in kings : j <= i])

\* ChessPiece.__init__: the piece stands on the coordinate of its entry.
start_coords(white_starting_positions, black_starting_positions) ==
    [p \in start_pieces("WHITE", white_starting_positions)
           \cup start_pieces("BLACK", black_starting_positions) |->
        LET cfg == IF p.player = "WHITE" THEN white_starting_positions
                   ELSE black_starting_positions
        IN  cfg[CHOOSE i \in DOMAIN cfg : new_piece(p.player, cfg[i]) = p][2]]

\* ChessVar._place_piece for every piece of both players, on a blank board.
\* The configurations of this model put no two pieces on one cell.
_place_pieces(pieces, coords) ==
    [index \in Indexes |->
        IF \E p \in pieces : get_index_from_coord(coords[p]) = index
        THEN CHOOSE p \in pieces : get_index_from_coord(coords[p]) = index
        ELSE None]

\* ChessVar.__init__ and ChessVar._initialize_game.
_initialize_game(white_starting_positions, black_starting_positions) ==
    LET pieces == [color \in Players |->
                      IF color = "WHITE"
                      THEN start_pieces("WHITE", white_starting_positions)
                      ELSE start_pieces("BLACK", black_starting_positions)]
        coords == start_coords(white_starting_positions, black_starting_positions)
        board  == _place_pieces(pieces["WHITE"] \cup pieces["BLACK"], coords)
        fresh  == _update_valid_moves_for_all_players(
                      pieces, coords, board,
                      [p \in DOMAIN coords |-> {}], [color \in Players |-> {}])
    IN  /\ game_state = "UNFINISHED"
        /\ players_with_kings_in_last_row = <<>>
        /\ chess_pieces = pieces
        /\ king = [color \in Players |->
                      IF color = "WHITE"
                      THEN start_king("WHITE", white_starting_positions)
                      ELSE start_king("BLACK", black_starting_positions)]
        /\ whos_turn_it_is = "WHITE"
        /\ current_coord = coords
        /\ game_board = board
        /\ valid_moves = fresh.moves
        /\ all_valid_moves = fresh.aggregates
        /\ source_coord = <<>>
        /\ dest_coord = <<>>
        /\ ret = "none"
        /\ exit_line = 0
        /\ moves_made = 0

\* Starting configurations, as the tuples handed to ChessVar(...).

\* Two kings, two files apart, one row from the far edge.
KingsStart ==
    [wht |-> << <<"KING", <<"a", "7">>, 1>> >>,
     blk |-> << <<"KING", <<"d", "7">>, 1>> >>]

\* A white king and rook against a black king and knight.
RookKnightStart ==
    [wht |-> << <<"KING", <<"a", "7">>, 1>>, <<"ROOK", <<"b", "8">>, 1>> >>,
     blk |-> << <<"KING", <<"d", "7">>, 1>>, <<"KNIGHT", <<"d", "8">>, 1>> >>]

\* The configuration of test_should_stalemate: the white king starts attacked.
StalemateTestStart ==
    [wht |-> << <<"KING", <<"h", "2">>, 1>> >>,
     blk |-> << <<"KNIGHT", <<"g", "1">>, 1>>, <<"KNIGHT", <<"g", "2">>, 2>>,
                <<"KNIGHT", <<"f", "1">>, 3>>, <<"KING", <<"a", "8">>, 1>> >>]

\* The configuration of
\* test_rook_valid_moves_update_after_move_even_if_in_check_condition: the
\* white rook shields nothing, and on h2 it would attack the black king.
RookTestStart ==
    [wht |-> << <<"ROOK", <<"a", "2">>, 1>>, <<"KING", <<"a", "1">>, 1>> >>,
     blk |-> << <<"KING", <<"h", "1">>, 1>> >>]

\* The class attributes _default_wht_start_pos and _default_blk_start_pos.
_default_wht_start_pos ==
    << <<"KING", <<"a", "1">>, 1>>, <<"ROOK", <<"a", "2">>, 1>>,
       <<"BISHOP", <<"b", "1">>, 1>>, <<"BISHOP", <<"b", "2">>, 2>>,
       <<"KNIGHT", <<"c", "1">>, 1>>, <<"KNIGHT", <<"c", "2">>, 2>> >>

_default_blk_start_pos ==
    << <<"KING", <<"h", "1">>, 1>>, <<"ROOK", <<"h", "2">>, 1>>,
       <<"BISHOP", <<"g", "1">>, 1>>, <<"BISHOP", <<"g", "2">>, 2>>,
       <<"KNIGHT", <<"f", "1">>, 1>>, <<"KNIGHT", <<"f", "2">>, 2>> >>

\* Lines 55-57 handing white's default to both players.
__init__with_one_default(wht_start_pos, blk_start_pos) ==
    IF wht_start_pos # Omitted \/ blk_start_pos # Omitted
    THEN _initialize_game(wht_start_pos, blk_start_pos)
    ELSE _initialize_game(_default_wht_start_pos, _default_wht_start_pos)

\* ChessVar.__init__, lines 51-57: the defaults are used when both
\* configurations are left out.
__init__(wht_start_pos, blk_start_pos) ==
    IF wht_start_pos # Omitted \/ blk_start_pos # Omitted
    THEN _initialize_game(wht_start_pos, blk_start_pos)
    ELSE _initialize_game(_default_wht_start_pos, _default_blk_start_pos)

\* The coordinates callers pass to make_move in games from the defaults.
DefaultSquares == {<<f, r>> : f \in {"c", "d", "e", "f"}, r \in {"1", "2"}}

\* Starting configurations for one white piece on e4 or in the corner h1,
\* as the tests of the legal-move sets build them: alone, with up to two
\* white knights and with up to one black knight on cells it can reach.
PieceTypes == {"KING", "KNIGHT", "BISHOP", "ROOK"}

PieceSquares == {<<"e", "4">>, <<"h", "1">>}

FriendSquares == {<<"f", "6">>, <<"f", "5">>, <<"e", "6">>,
                  <<"f", "2">>, <<"g", "3">>, <<"g", "2">>}

FoeSquares == {<<"g", "3">>, <<"d", "3">>, <<"e", "2">>, <<"g", "2">>}

PieceStarts ==
    {[wht |-> << <<type, at, 1>> >>, blk |-> blk] :
        type \in PieceTypes, at \in PieceSquares,
        blk \in {Omitted} \cup {<< <<"KNIGHT", foe, 1>> >> : foe \in FoeSquares}}
    \cup
    UNION {{[wht |-> << <<type, at, 1>>, <<"KNIGHT", friend, 2>> >>, blk |-> blk] :
               type \in PieceTypes, at \in PieceSquares,
               blk \in {Omitted} \cup
                       {<< <<"KNIGHT", foe, 1>> >> : foe \in FoeSquares \ {friend}}} :
           friend \in FriendSquares}
    \cup
    {[wht |-> << <<type, <<"h", "1">>, 1>>, <<"KNIGHT", <<"f", "2">>, 2>>,
                 <<"KNIGHT", <<"g", "3">>, 3>> >>,
      blk |-> Omitted] : type \in PieceTypes}

\* The coordinates callers pass to make_move in games from PieceStarts.
PieceMoveSquares == {<<"e", "4">>, <<"e", "5">>, <<"g", "3">>, <<"h", "1">>}

\* What callers pass to make_move when nothing checks its shape: coordinates,
\* two-character strings with a digit for the file or a letter for the rank,
\* strings with a character that is no file letter and no rank digit, and
\* strings of one and of three characters.
ShapeInputs ==
    {<<"a", "7">>, <<"b", "7">>, <<"b", "8">>, <<"c", "8">>,
     <<"8", "7">>, <<"7", "a">>, <<"a", "b">>,
     <<"i", "7">>, <<"a", "9">>, <<"a">>, <<"a", "7", "7">>}

\* The coordinates callers pass to make_move in games from KingsStart and
\* RookKnightStart, and in games from StalemateTestStart.
Squares == {<<f, r>> : f \in {"a", "b", "c", "d"}, r \in {"7", "8"}}

TestSquares == {<<f, r>> : f \in {"f", "g", "h"}, r \in {"1", "2", "3"}}

\* The coordinates callers pass to make_move in games from RookTestStart.
RookTestSquares == {<<f, r>> : f \in {"a", "g", "h"}, r \in {"1", "2"}}

----------------------------------------------------------------------------
(* ChessVar.make_move *)

\* Lines 186-189 leaving the turn with the player who moved.
same_player(color) == color

other_player(color) == IF color = "WHITE" THEN "BLACK" ELSE "WHITE"

\* _move_is_valid without the test of lines 88-90 for the owner of the piece.
_move_is_valid_any_owner(source, dest) ==
    LET piece_to_move == game_board[get_index_from_coord(source)]
    IN  IF piece_to_move = None THEN FALSE
        ELSE IF dest \notin valid_moves[piece_to_move] THEN FALSE
        ELSE TRUE

\* ChessVar._move_is_valid, on the game as it stands.
_move_is_valid(source, dest) ==
    LET piece_to_move == game_board[get_index_from_coord(source)]
    IN  IF piece_to_move = None THEN FALSE
        ELSE IF piece_to_move.player # whos_turn_it_is THEN FALSE
        ELSE IF dest \notin valid_moves[piece_to_move] THEN FALSE
        ELSE TRUE

\* Player.remove_piece leaving the collection as it is.
remove_piece_keeps_it(pieces, chess_piece) == pieces

\* Player.remove_piece, called on the player who owns chess_piece (line 229),
\* for a piece that is in the collection.
remove_piece(pieces, chess_piece) ==
    [pieces EXCEPT ![chess_piece.player] = @ \ {chess_piece}]

\* ChessVar._move_piece: the game after the relocation, with the two pieces
\* it returns.  Player.remove_piece is set.remove, which raises KeyError for
\* a piece that is not in the collection: `raised` says so, and then the
\* caches are not recomputed.
_move_piece(source, dest) ==
    LET destination_index == get_index_from_coord(dest)
        source_index      == get_index_from_coord(source)
        destination_piece_to_remove == game_board[destination_index]
        source_piece_to_move        == game_board[source_index]
        board  == [game_board EXCEPT ![destination_index] = source_piece_to_move,
                                     ![source_index] = None]
        coords == [current_coord EXCEPT ![source_piece_to_move] = dest]
        raised == /\ destination_piece_to_remove # None
                  /\ destination_piece_to_remove
                        \notin chess_pieces[destination_piece_to_remove.player]
        pieces == IF destination_piece_to_remove # None
                  THEN remove_piece(chess_pieces, destination_piece_to_remove)
                  ELSE chess_pieces
        fresh  == IF raised
                  THEN [moves |-> valid_moves, aggregates |-> all_valid_moves]
                  ELSE _update_valid_moves_for_all_players(
                           pieces, coords, board, valid_moves, all_valid_moves)
    IN  [state |-> game_state, board |-> board, coords |-> coords, pieces |-> pieces,
         moves |-> fresh.moves, aggregates |-> fresh.aggregates,
         assigned |-> TRUE, raised |-> raised,
         destination_piece |-> destination_piece_to_remove,
         source_piece |-> source_piece_to_move]

\* make_move, line 126: the player to move has an empty aggregate move set.
cant_move_anymore == all_valid_moves[whos_turn_it_is] = {}

\* make_move, lines 125-128: the state is set and nothing returns; neither
\* destination_piece nor source_piece is assigned.
stalemate_branch ==
    [state |-> "STALEMATE", board |-> game_board, coords |-> current_coord,
     pieces |-> chess_pieces, moves |-> valid_moves, aggregates |-> all_valid_moves,
     assigned |-> FALSE, raised |-> FALSE,
     destination_piece |-> None, source_piece |-> None]

\* The test of lines 137-142 for the king of the player who moves only.
king_in_check_own_only(coords, aggregates) ==
    coords[king[whos_turn_it_is]] \in aggregates[other_player(whos_turn_it_is)]

\* make_move, lines 137-142: a king stands on a coordinate of the other
\* player's aggregate move set.
king_in_check(coords, aggregates) ==
    \/ coords[king["BLACK"]] \in aggregates["WHITE"]
    \/ coords[king["WHITE"]] \in aggregates["BLACK"]

\* The rollback without line 151: the moved piece is put back on its cell
\* but keeps dest as its position.
undo_move_without_set_pos(g, source, dest) ==
    LET old_source_index == get_index_from_coord(source)
        old_dest_index   == get_index_from_coord(dest)
        board1 == [g.board EXCEPT ![old_source_index] = g.source_piece]
    IN  IF g.destination_piece # None
        THEN [g EXCEPT !.board  = [board1 EXCEPT ![old_dest_index] = g.destination_piece],
                       !.coords = [g.coords EXCEPT ![g.destination_piece] = dest],
                       !.pieces = [g.pieces EXCEPT ![g.destination_piece.player] =
                                       @ \cup {g.destination_piece}]]
        ELSE [g EXCEPT !.board  = [board1 EXCEPT ![old_dest_index] = None]]

\* The rollback without line 160: the captured piece is put back on its
\* cell but not into its owner's collection.
undo_move_without_add_piece(g, source, dest) ==
    LET old_source_index == get_index_from_coord(source)
        old_dest_index   == get_index_from_coord(dest)
        board1  == [g.board EXCEPT ![old_source_index] = g.source_piece]
        coords1 == [g.coords EXCEPT ![g.source_piece] = source]
    IN  IF g.destination_piece # None
        THEN [g EXCEPT !.board  = [board1 EXCEPT ![old_dest_index] = g.destination_piece],
                       !.coords = [coords1 EXCEPT ![g.destination_piece] = dest]]
        ELSE [g EXCEPT !.board  = [board1 EXCEPT ![old_dest_index] = None],
                       !.coords = coords1]

\* Lines 143-162 followed by a recomputation of both players' sets against
\* the restored board.
undo_move_then_update(g, source, dest) ==
    LET old_source_index == get_index_from_coord(source)
        old_dest_index   == get_index_from_coord(dest)
        board1  == [g.board EXCEPT ![old_source_index] = g.source_piece]
        coords1 == [g.coords EXCEPT ![g.source_piece] = source]
        board   == [board1 EXCEPT ![old_dest_index] = g.destination_piece]
        coords  == IF g.destination_piece # None
                   THEN [coords1 EXCEPT ![g.destination_piece] = dest]
                   ELSE coords1
        pieces  == IF g.destination_piece # None
                   THEN [g.pieces EXCEPT ![g.destination_piece.player] =
                            @ \cup {g.destination_piece}]
                   ELSE g.pieces
        fresh   == _update_valid_moves_for_all_players(
                       pieces, coords, board, g.moves, g.aggregates)
    IN  [g EXCEPT !.board = board, !.coords = coords, !.pieces = pieces,
                  !.moves = fresh.moves, !.aggregates = fresh.aggregates]

\* make_move, lines 143-162: the relocation undone on the board, in the
\* positions and in the collections; the caches stay as they are.
undo_move(g, source, dest) ==
    LET old_source_index == get_index_from_coord(source)
        old_dest_index   == get_index_from_coord(dest)
        board1  == [g.board EXCEPT ![old_source_index] = g.source_piece]
        coords1 == [g.coords EXCEPT ![g.source_piece] = source]
    IN  IF g.destination_piece # None
        THEN [g EXCEPT !.board  = [board1 EXCEPT ![old_dest_index] = g.destination_piece],
                       !.coords = [coords1 EXCEPT ![g.destination_piece] = dest],
                       !.pieces = [g.pieces EXCEPT ![g.destination_piece.player] =
                                       @ \cup {g.destination_piece}]]
        ELSE [g EXCEPT !.board  = [board1 EXCEPT ![old_dest_index] = None],
                       !.coords = coords1]

\* The game takes the values of g.
becomes(g, turn, at_edge) ==
    /\ game_state' = g.state
    /\ game_board' = g.board
    /\ current_coord' = g.coords
    /\ chess_pieces' = g.pieces
    /\ valid_moves' = g.moves
    /\ all_valid_moves' = g.aggregates
    /\ whos_turn_it_is' = turn
    /\ players_with_kings_in_last_row' = at_edge
    /\ UNCHANGED king

returns(value, line) ==
    /\ ret' = value
    /\ exit_line' = line
    /\ moves_made' = IF value = "True" THEN moves_made + 1 ELSE moves_made

\* Line 171 with the near edge, row index 7, for the far edge.
king_in_first_row(king_pos_row) == king_pos_row = 7

\* make_move, line 171: the king of the player who moved is on row index 0.
king_in_last_row(king_pos_row) == king_pos_row = 0

\* Line 175 with a length the list never has.
is_tie_with_three(at_edge) == Len(at_edge) = 3

\* make_move, line 175.
is_tie(at_edge) == Len(at_edge) = 2

\* Line 179 with the length at which line 175 has already ended the game: no
\* game is ever won.
is_won_with_two(at_edge, king_pos_row) == Len(at_edge) = 2 /\ king_pos_row # 0

\* make_move, line 179.
is_won(at_edge, king_pos_row) == Len(at_edge) = 1 /\ king_pos_row # 0

\* Lines 180-182 naming the player who made the final move.
won_state_of_mover(at_edge) ==
    IF whos_turn_it_is = "WHITE" THEN "WHITE_WON" ELSE "BLACK_WON"

\* make_move, lines 180-182: f"{...[0].get_color()}_WON".
won_state(at_edge) == IF at_edge[1] = "WHITE" THEN "WHITE_WON" ELSE "BLACK_WON"

\* make_move, lines 166-191: the move stands; edge arrival, end of the game,
\* change of turn.
finish_move(g) ==
    LET king_pos_row == get_index_from_coord(g.coords[king[whos_turn_it_is]])[1]
        at_edge == IF king_in_last_row(king_pos_row)
                   THEN Append(players_with_kings_in_last_row, whos_turn_it_is)
                   ELSE players_with_kings_in_last_row
    IN  IF is_tie(at_edge)
        THEN /\ becomes([g EXCEPT !.state = "TIE"], whos_turn_it_is, at_edge)
             /\ returns("True", 177)
        ELSE IF is_won(at_edge, king_pos_row)
        THEN /\ becomes([g EXCEPT !.state = won_state(at_edge)],
                        whos_turn_it_is, at_edge)
             /\ returns("True", 183)
        ELSE /\ becomes(g, other_player(whos_turn_it_is), at_edge)
             /\ returns("True", 191)

\* make_move, lines 138-141: get_king() is None for a player constructed
\* without a king, and None.get_pos() raises AttributeError.  The `or` reads
\* the white king only when the black king is not attacked.
king_is_missing(coords, aggregates) ==
    \/ king["BLACK"] = None
    \/ (coords[king["BLACK"]] \notin aggregates["WHITE"] /\ king["WHITE"] = None)

\* make_move, lines 136-191, entered with the game g the elif chain left.
after_branches(g, source, dest) ==
    IF g.raised
    THEN /\ becomes(g, whos_turn_it_is, players_with_kings_in_last_row)
         /\ returns("raise", 553)
    ELSE IF king_is_missing(g.coords, g.aggregates)
    THEN /\ becomes(g, whos_turn_it_is, players_with_kings_in_last_row)
         /\ returns("raise", 138)
    ELSE IF king_in_check(g.coords, g.aggregates)
    THEN IF ~g.assigned
         THEN \* line 150 reads source_piece, never assigned: UnboundLocalError
              /\ becomes(g, whos_turn_it_is, players_with_kings_in_last_row)
              /\ returns("raise", 150)
         ELSE /\ becomes(undo_move(g, source, dest), whos_turn_it_is,
                         players_with_kings_in_last_row)
              /\ returns("False", 164)
    ELSE finish_move(g)

\* Line 119 with the test left out.
game_is_never_over == FALSE

\* make_move, line 119.
game_is_over == game_state # "UNFINISHED"

make_move(source, dest) ==
    /\ moves_made < MaxMoves
    /\ source_coord' = source
    /\ dest_coord' = dest
    /\ IF game_is_over
       THEN UNCHANGED game_vars /\ returns("False", 120)
       ELSE IF get_index_from_coord_raises(source)
       THEN \* _move_is_valid, lines 78-80: the conversion of source raises
            UNCHANGED game_vars /\ returns("raise", 78)
       ELSE IF ~_move_is_valid(source, dest)
       THEN UNCHANGED game_vars /\ returns("False", 123)
       ELSE IF cant_move_anymore
       THEN after_branches(stalemate_branch, source, dest)
       ELSE after_branches(_move_piece(source, dest), source, dest)

----------------------------------------------------------------------------
(* Specifications *)

\* Games from starting positions in which no king is attacked.
Init ==
    \E start \in {KingsStart, RookKnightStart} :
        _initialize_game(start.wht, start.blk)

Next == \E source \in Squares, dest \in Squares : make_move(source, dest)

Spec == Init /\ [][Next]_vars

\* Games from the starting position of test_should_stalemate.
TestInit == _initialize_game(StalemateTestStart.wht, StalemateTestStart.blk)

TestNext == \E source \in TestSquares, dest \in TestSquares : make_move(source, dest)

TestSpec == TestInit /\ [][TestNext]_vars

\* Games from the starting position of the rook rollback test.
RookTestInit == _initialize_game(RookTestStart.wht, RookTestStart.blk)

RookTestNext ==
    \E source \in RookTestSquares, dest \in RookTestSquares : make_move(source, dest)

RookTestSpec == RookTestInit /\ [][RookTestNext]_vars

\* Games constructed with both starting configurations left out.
DefaultInit == __init__(Omitted, Omitted)

DefaultNext ==
    \E source \in DefaultSquares, dest \in DefaultSquares : make_move(source, dest)

DefaultSpec == DefaultInit /\ [][DefaultNext]_vars

\* Games of one white piece with at most two friends and one foe.
PieceInit == \E start \in PieceStarts : __init__(start.wht, start.blk)

PieceNext ==
    \E source \in PieceMoveSquares, dest \in PieceMoveSquares : make_move(source, dest)

PieceSpec == PieceInit /\ [][PieceNext]_vars

\* Games in which make_move is called with strings of any shape.
ShapeNext == \E source \in ShapeInputs, dest \in ShapeInputs : make_move(source, dest)

ShapeSpec == Init /\ [][ShapeNext]_vars

----------------------------------------------------------------------------
(* Properties *)

\* The piece on a cell of the board as it stands.
piece_at(coord) == game_board[get_index_from_coord(coord)]

\* The row index of a player's king, by the king's stored position.
king_row(color) == get_index_from_coord(current_coord[king[color]])[1]

\* C1: once the game state is not UNFINISHED, every make_move call returns
\* False and leaves the board, the piece sets, the positions, the turn, the
\* kings-at-edge list and the game state as they are.
C1_TerminalStateAbsorbs ==
    [][game_state # "UNFINISHED" =>
          /\ ret' = "False"
          /\ UNCHANGED <<game_board, chess_pieces, current_coord, whos_turn_it_is,
                         players_with_kings_in_last_row, game_state>>]_vars

\* A call has been made on a game that white had won.
C1_Witness ==
    /\ game_state = "WHITE_WON"
    /\ exit_line = 120
    /\ ret = "False"

\* C2: after a call that returns True neither king's position is in the
\* other player's aggregate move set, and a call whose relocation leaves a
\* king's position in the other player's recomputed aggregate returns False.
C2_NoKingAttackedAfterAcceptedMove ==
    [][/\ ret' = "True" =>
            /\ current_coord'[king["WHITE"]] \notin all_valid_moves'["BLACK"]
            /\ current_coord'[king["BLACK"]] \notin all_valid_moves'["WHITE"]
       /\ (/\ game_state = "UNFINISHED"
           /\ _move_is_valid(source_coord', dest_coord')
           /\ all_valid_moves[whos_turn_it_is] # {}
           /\ LET g == _move_piece(source_coord', dest_coord')
              IN  \/ g.coords[king["WHITE"]] \in g.aggregates["BLACK"]
                  \/ g.coords[king["BLACK"]] \in g.aggregates["WHITE"])
          => ret' = "False"]_vars

\* A king has moved and the move was accepted.
C2_Witness ==
    /\ ret = "True"
    /\ piece_at(dest_coord).type = "KING"
    /\ source_coord # dest_coord

\* C3: a call that ends in the rollback returns False with the moved piece
\* back on the source cell, the destination cell holding what it held, both
\* piece sets, the positions, the turn, the state and the list as before.
C3_RollbackRestores ==
    [][exit_line' = 164 =>
          LET moved    == piece_at(source_coord')
              captured == piece_at(dest_coord')
          IN  /\ ret' = "False"
              /\ game_board'[get_index_from_coord(source_coord')] = moved
              /\ current_coord'[moved] = source_coord'
              /\ game_board'[get_index_from_coord(dest_coord')] = captured
              /\ captured # None =>
                    /\ current_coord'[captured] = dest_coord'
                    /\ captured \in chess_pieces'[captured.player]
              /\ UNCHANGED <<game_board, current_coord, chess_pieces, whos_turn_it_is,
                             game_state, players_with_kings_in_last_row>>]_vars

\* A capture of a piece of the other player has been rolled back.
C3_Witness ==
    /\ exit_line = 164
    /\ piece_at(dest_coord) # None
    /\ piece_at(dest_coord).player # piece_at(source_coord).player

\* C4: a call whose source cell holds a piece of the player who does not
\* hold the turn returns False and leaves the board as it is; the first call
\* that returns True moves a piece of WHITE.
C4_TurnExclusive ==
    [][LET piece == piece_at(source_coord')
       IN  /\ (piece # None /\ piece.player # whos_turn_it_is) =>
                  (ret' = "False" /\ game_board' = game_board)
           /\ (moves_made = 0 /\ ret' = "True") => piece.player = "WHITE"]_vars

\* A piece of the player not to move was named as the source of a call on
\* an unfinished game; its destination was in the piece's cached set.
C4_Witness ==
    /\ game_state = "UNFINISHED"
    /\ ret = "False"
    /\ piece_at(source_coord) # None
    /\ piece_at(source_coord).player # whos_turn_it_is
    /\ dest_coord \in valid_moves[piece_at(source_coord)]

\* C5: in an UNFINISHED game a call returns False and moves no piece when the
\* source cell is empty, when dest is not in the cached set of the piece on
\* the source cell, or when dest holds a piece of the mover's own color.
C5_IllegalMoveRejected ==
    [][LET piece  == piece_at(source_coord')
           target == piece_at(dest_coord')
       IN  (/\ game_state = "UNFINISHED"
            /\ \/ piece = None
               \/ dest_coord' \notin valid_moves[piece]
               \/ (target # None /\ target.player = whos_turn_it_is))
           => /\ ret' = "False"
              /\ game_board' = game_board
              /\ current_coord' = current_coord]_vars

\* The row index of a player's king once the call has ended.
king_row_after(color) == get_index_from_coord(current_coord'[king[color]])[1]

\* The *_WON state that names a color.
won_by(color) == IF color = "WHITE" THEN "WHITE_WON" ELSE "BLACK_WON"

\* C6: with exactly one player P in the kings-at-edge list, an accepted move
\* of the other player that leaves the mover's king off row 0 makes the state
\* P's *_WON; a *_WON state is entered in no other way, and the winner is the
\* recorded player, never the player who made the final move.
C6_RecordedPlayerWins ==
    [][LET mover == piece_at(source_coord').player
           at_edge == players_with_kings_in_last_row
       IN  /\ (/\ game_state = "UNFINISHED"
               /\ Len(at_edge) = 1
               /\ mover # at_edge[1]
               /\ ret' = "True"
               /\ king_row_after(mover) # 0)
              => game_state' = won_by(at_edge[1])
           /\ (game_state' \in {"WHITE_WON", "BLACK_WON"} /\ game_state' # game_state)
              => /\ game_state = "UNFINISHED"
                 /\ ret' = "True"
                 /\ Len(at_edge) = 1
                 /\ players_with_kings_in_last_row' = at_edge
                 /\ game_state' = won_by(at_edge[1])
                 /\ mover # at_edge[1]
                 /\ mover = whos_turn_it_is
                 /\ king_row_after(mover) # 0]_vars

\* Black was recorded and white's next accepted move did not reach row 0.
C6_Witness ==
    /\ game_state = "BLACK_WON"
    /\ players_with_kings_in_last_row = <<"BLACK">>
    /\ ret = "True"
    /\ piece_at(dest_coord).player = "WHITE"

\* C7: with one player recorded, an accepted move of the other player that
\* leaves the mover's king on row 0 gives the list 2 members and the state
\* TIE, whichever color arrived first; TIE is entered only with 2 members.
C7_BothAtEdgeIsTie ==
    [][LET mover == piece_at(source_coord').player
           at_edge == players_with_kings_in_last_row
       IN  /\ (/\ game_state = "UNFINISHED"
               /\ Len(at_edge) = 1
               /\ mover # at_edge[1]
               /\ ret' = "True"
               /\ king_row_after(mover) = 0)
              => /\ players_with_kings_in_last_row' = <<at_edge[1], mover>>
                 /\ game_state' = "TIE"
           /\ game_state' = "TIE" => Len(players_with_kings_in_last_row') = 2]_vars

\* Black arrived first, white second.
C7_Witness ==
    /\ game_state = "TIE"
    /\ players_with_kings_in_last_row = <<"BLACK", "WHITE">>
    /\ ret = "True"

\* C8: with an empty list, an accepted move that leaves the mover's king on
\* row 0 records the mover alone, keeps the state UNFINISHED and passes the
\* turn to the opponent; one that leaves the king off row 0 records nobody.
C8_FirstArrivalIsRecorded ==
    [][LET mover == piece_at(source_coord').player
       IN  (/\ game_state = "UNFINISHED"
            /\ players_with_kings_in_last_row = <<>>
            /\ ret' = "True")
           => IF king_row_after(mover) = 0
              THEN /\ players_with_kings_in_last_row' = <<mover>>
                   /\ game_state' = "UNFINISHED"
                   /\ whos_turn_it_is' # mover
                   /\ whos_turn_it_is' \in Players
              ELSE players_with_kings_in_last_row' = <<>>]_vars

\* Black's king has arrived on row 0 first; white is to move.
C8_Witness ==
    /\ players_with_kings_in_last_row = <<"BLACK">>
    /\ game_state = "UNFINISHED"
    /\ whos_turn_it_is = "WHITE"
    /\ exit_line = 191
    /\ king_row("BLACK") = 0

\* C9: in an UNFINISHED state in which the player to move has an empty
\* aggregate move set, a call returns False, moves no piece and sets the
\* state to STALEMATE.
C9_EmptyAggregateIsStalemate ==
    [][(game_state = "UNFINISHED" /\ all_valid_moves[whos_turn_it_is] = {})
          => /\ ret' = "False"
             /\ game_board' = game_board
             /\ current_coord' = current_coord
             /\ game_state' = "STALEMATE"]_vars

\* C10: a call returns True exactly when its relocation stands, and False
\* exactly when it is rejected at the terminal check, at the legality check,
\* at the stalemate check or by the rollback.
C10_ReturnValue ==
    [][LET rejected_before_moving ==
               \/ game_state # "UNFINISHED"
               \/ ~_move_is_valid(source_coord', dest_coord')
               \/ all_valid_moves[whos_turn_it_is] = {}
           relocated == game_board' # game_board
       IN  /\ ret' = "True" <=> relocated
           /\ ret' = "False" <=> (rejected_before_moving \/ exit_line' = 164)]_vars

\* C11: the turn passes to the other player exactly on a call that returns
\* True and leaves the state UNFINISHED; a call that returns False leaves the
\* turn as it is, and after a call that returns True and ends the game the
\* turn is still with the player who made the move.
C11_TurnPassesOnlyWhileUnfinished ==
    [][LET mover == piece_at(source_coord').player
       IN  /\ whos_turn_it_is' # whos_turn_it_is
                <=> (ret' = "True" /\ game_state' = "UNFINISHED")
           /\ whos_turn_it_is' # whos_turn_it_is
                => whos_turn_it_is' \in Players
           /\ ret' = "False" => whos_turn_it_is' = whos_turn_it_is
           /\ (ret' = "True" /\ game_state' # "UNFINISHED")
                => (whos_turn_it_is' = mover /\ whos_turn_it_is = mover)]_vars

\* Black has made the move that ended the game; the turn is still black's.
C11_Witness ==
    /\ ret = "True"
    /\ game_state \in {"WHITE_WON", "BLACK_WON", "TIE"}
    /\ whos_turn_it_is = "BLACK"
    /\ piece_at(dest_coord).player = "BLACK"

\* C12: after a call that returns True for a move onto a cell holding a
\* piece of the other player, the captured piece is not in its owner's piece
\* set and on no cell of the board, the owner's aggregate move set is the
\* union of the sets its remaining pieces have against the new board, and
\* the destination cell holds the piece that moved.
C12_CapturedPieceIsGone ==
    [][LET mover    == piece_at(source_coord')
           captured == piece_at(dest_coord')
       IN  (/\ ret' = "True"
            /\ captured # None
            /\ captured.player # mover.player)
           => /\ captured \notin chess_pieces'[captured.player]
              /\ \A index \in Indexes : game_board'[index] # captured
              /\ all_valid_moves'[captured.player] =
                    UNION {piece_update_valid_moves(p, current_coord'[p], game_board') :
                              p \in chess_pieces'[captured.player]}
              /\ game_board'[get_index_from_coord(dest_coord')] = mover]_vars

\* White's rook has captured black's knight and the move was accepted.
C12_Witness ==
    /\ ret = "True"
    /\ piece_at(dest_coord) = [player |-> "WHITE", type |-> "ROOK", id |-> 1]
    /\ current_coord[[player |-> "BLACK", type |-> "KNIGHT", id |-> 1]] = dest_coord
    /\ [player |-> "BLACK", type |-> "KNIGHT", id |-> 1] \notin chess_pieces["BLACK"]

recomputed_caches ==
    _update_valid_moves_for_all_players(chess_pieces, current_coord, game_board,
                                        valid_moves, all_valid_moves)

\* make_move, lines 166-191, as the values it leaves and returns.
finish_move_outcome(g) ==
    LET king_pos_row == get_index_from_coord(g.coords[king[whos_turn_it_is]])[1]
        at_edge == IF king_in_last_row(king_pos_row)
                   THEN Append(players_with_kings_in_last_row, whos_turn_it_is)
                   ELSE players_with_kings_in_last_row
    IN  [ret    |-> "True",
         board  |-> g.board,
         pieces |-> g.pieces,
         turn   |-> IF is_tie(at_edge) \/ is_won(at_edge, king_pos_row)
                    THEN whos_turn_it_is ELSE other_player(whos_turn_it_is),
         state  |-> IF is_tie(at_edge) THEN "TIE"
                    ELSE IF is_won(at_edge, king_pos_row) THEN won_state(at_edge)
                    ELSE g.state]

\* make_move, lines 136-191, as the values it leaves and returns.
after_branches_outcome(g, source, dest) ==
    IF \/ g.raised
       \/ king_is_missing(g.coords, g.aggregates)
       \/ (king_in_check(g.coords, g.aggregates) /\ ~g.assigned)
    THEN [ret |-> "raise", board |-> g.board, pieces |-> g.pieces,
          turn |-> whos_turn_it_is, state |-> g.state]
    ELSE IF king_in_check(g.coords, g.aggregates)
    THEN [ret |-> "False", board |-> undo_move(g, source, dest).board,
          pieces |-> undo_move(g, source, dest).pieces,
          turn |-> whos_turn_it_is, state |-> g.state]
    ELSE finish_move_outcome(g)

\* What make_move(source, dest) returns and leaves in the reference game:
\* the code of make_move run on the board, positions and collections as they
\* stand, with the caches recomputed against them.
reference_make_move(source, dest) ==
    LET fresh == recomputed_caches
        piece_to_move == game_board[get_index_from_coord(source)]
        rejected == [ret |-> "False", board |-> game_board, pieces |-> chess_pieces,
                     turn |-> whos_turn_it_is, state |-> game_state]
    IN  IF game_is_over THEN rejected
        ELSE IF get_index_from_coord_raises(source)
        THEN [rejected EXCEPT !.ret = "raise"]
        ELSE IF piece_to_move = None THEN rejected
        ELSE IF piece_to_move.player # whos_turn_it_is THEN rejected
        ELSE IF dest \notin fresh.moves[piece_to_move] THEN rejected
        ELSE IF fresh.aggregates[whos_turn_it_is] = {}
        THEN after_branches_outcome(
                 [stalemate_branch EXCEPT !.moves = fresh.moves,
                                          !.aggregates = fresh.aggregates],
                 source, dest)
        ELSE after_branches_outcome(_move_piece(source, dest), source, dest)

\* C14: leaving the caches as they are after a rollback changes no outcome:
\* every call returns, and leaves as board, piece sets, turn and state, what
\* it returns and leaves in the reference game that recomputes both players'
\* sets against the restored board after each rollback.  (Up to the first
\* call on which they differ the two games hold the same board, positions
\* and collections, so the reference game's caches are recomputed_caches.)
C14_StaleCachesChangeNothing ==
    [][LET reference == reference_make_move(source_coord', dest_coord')
       IN  /\ ret' = reference.ret
           /\ game_board' = reference.board
           /\ chess_pieces' = reference.pieces
           /\ whos_turn_it_is' = reference.turn
           /\ game_state' = reference.state]_vars

\* The pieces of a player's collection as pairs of type and position.
placed(color) == {<<p.type, current_coord[p]>> : p \in chess_pieces[color]}

\* The image of a coordinate across the vertical centre of the board.
mirrored(coord) == <<col_conversion[7 - board_index[coord[1]]], coord[2]>>

\* C15: a game constructed with both configurations left out is UNFINISHED
\* with WHITE to move and nobody recorded at the edge; each side has a king,
\* a rook, two bishops and two knights, white on a1, a2, b1 b2, c1 c2 and
\* black on h1, h2, g1 g2, f1 f2, black's layout being white's mirrored
\* file for file; the board holds exactly these pieces, and neither king
\* stands on a coordinate of the other player's aggregate move set.
C15_DefaultStart ==
    ret = "none" =>
        /\ game_state = "UNFINISHED"
        /\ whos_turn_it_is = "WHITE"
        /\ players_with_kings_in_last_row = <<>>
        /\ \A color \in Players :
              /\ Cardinality(chess_pieces[color]) = 6
              /\ Cardinality({p \in chess_pieces[color] : p.type = "KING"}) = 1
              /\ Cardinality({p \in chess_pieces[color] : p.type = "ROOK"}) = 1
              /\ Cardinality({p \in chess_pieces[color] : p.type = "BISHOP"}) = 2
              /\ Cardinality({p \in chess_pieces[color] : p.type = "KNIGHT"}) = 2
              /\ king[color] \in chess_pieces[color]
              /\ king[color].type = "KING"
              /\ \A p \in chess_pieces[color] :
                    p.player = color /\ piece_at(current_coord[p]) = p
        /\ placed("WHITE") = {<<"KING", <<"a", "1">> >>, <<"ROOK", <<"a", "2">> >>,
                              <<"BISHOP", <<"b", "1">> >>, <<"BISHOP", <<"b", "2">> >>,
                              <<"KNIGHT", <<"c", "1">> >>, <<"KNIGHT", <<"c", "2">> >>}
        /\ placed("BLACK") = {<<"KING", <<"h", "1">> >>, <<"ROOK", <<"h", "2">> >>,
                              <<"BISHOP", <<"g", "1">> >>, <<"BISHOP", <<"g", "2">> >>,
                              <<"KNIGHT", <<"f", "1">> >>, <<"KNIGHT", <<"f", "2">> >>}
        /\ placed("BLACK") = {<<e[1], mirrored(e[2])>> : e \in placed("WHITE")}
        /\ Cardinality({index \in Indexes : game_board[index] # None}) = 12
        /\ current_coord[king["WHITE"]] \notin all_valid_moves["BLACK"]
        /\ current_coord[king["BLACK"]] \notin all_valid_moves["WHITE"]

\* The game as the constructor leaves it: no call made, the white king on a1
\* and the black king on h1.
C15_Witness ==
    /\ ret = "none"
    /\ piece_at(<<"a", "1">>) = [player |-> "WHITE", type |-> "KING", id |-> 1]
    /\ piece_at(<<"h", "1">>) = [player |-> "BLACK", type |-> "KING", id |-> 1]

\* The cached sets are those of the last recomputation against the board as
\* it stands: after construction, after a call that returned True, and after
\* a call that raised at line 138, which is past _move_piece.
recomputed_last == ret = "none" \/ ret = "True" \/ exit_line = 138

Abs(n) == IF n < 0 THEN -n ELSE n

\* The cell `to` is adjacent to the cell `from`, or an L-shaped jump away.
adjacent(from, to) ==
    LET rows == Abs(get_index_from_coord(to)[1] - get_index_from_coord(from)[1])
        cols == Abs(get_index_from_coord(to)[2] - get_index_from_coord(from)[2])
    IN  rows <= 1 /\ cols <= 1 /\ rows + cols > 0

L_shaped(from, to) ==
    LET rows == Abs(get_index_from_coord(to)[1] - get_index_from_coord(from)[1])
        cols == Abs(get_index_from_coord(to)[2] - get_index_from_coord(from)[2])
    IN  (rows = 1 /\ cols = 2) \/ (rows = 2 /\ cols = 1)

\* The cells of the board a king or knight may go to: its targets that are
\* empty or hold a piece of the other player.
single_square_targets(p) ==
    {c \in Coords :
        /\ IF p.type = "KING" THEN adjacent(current_coord[p], c)
                              ELSE L_shaped(current_coord[p], c)
        /\ piece_at(c) = None \/ piece_at(c).player # p.player}

\* C16: the legal-move set of a king or a knight recomputed against a board
\* is exactly the set of its 8 targets that are on the board and empty or
\* held by the other player; it holds no cell of a friendly piece and not
\* the piece's own cell.  A lone knight on e4 has f2 g3 g5 f6 d6 c5 c3 d2; a
\* piece in the corner h1 whose targets are all friendly has the empty set.
C16_SingleSquareMoves ==
    \A color \in Players :
       \A p \in {q \in chess_pieces[color] : q.type \in {"KING", "KNIGHT"}} :
          /\ piece_update_valid_moves(p, current_coord[p], game_board)
                = single_square_targets(p)
          /\ recomputed_last =>
                /\ valid_moves[p] = single_square_targets(p)
                /\ current_coord[p] \notin valid_moves[p]
                /\ \A c \in valid_moves[p] :
                      /\ c \in Coords
                      /\ piece_at(c) = None \/ piece_at(c).player # color
                /\ (/\ p.type = "KNIGHT"
                    /\ current_coord[p] = <<"e", "4">>
                    /\ \A c \in Coords : piece_at(c) \in {p, None})
                   => valid_moves[p] =
                         {<<"f", "2">>, <<"g", "3">>, <<"g", "5">>, <<"f", "6">>,
                          <<"d", "6">>, <<"c", "5">>, <<"c", "3">>, <<"d", "2">>}
                /\ (/\ p.type = "KNIGHT"
                    /\ current_coord[p] = <<"h", "1">>
                    /\ piece_at(<<"f", "2">>) # None
                    /\ piece_at(<<"f", "2">>).player = color
                    /\ piece_at(<<"g", "3">>) # None
                    /\ piece_at(<<"g", "3">>).player = color)
                   => valid_moves[p] = {}

\* A white knight stands on e4 next to a white knight on f6 and a black
\* knight on g3: its set has g3 and not f6.
C16_Witness ==
    LET knight == [player |-> "WHITE", type |-> "KNIGHT", id |-> 1]
    IN  /\ ret = "none"
        /\ piece_at(<<"e", "4">>) = knight
        /\ piece_at(<<"f", "6">>) = [player |-> "WHITE", type |-> "KNIGHT", id |-> 2]
        /\ piece_at(<<"g", "3">>) = [player |-> "BLACK", type |-> "KNIGHT", id |-> 1]
        /\ <<"g", "3">> \in valid_moves[knight]
        /\ <<"f", "6">> \notin valid_moves[knight]

\* The cell k steps from the cell `from` in a direction, as an index.
stepped(from, direction, k) ==
    <<get_index_from_coord(from)[1] + k * direction[1],
      get_index_from_coord(from)[2] + k * direction[2]>>

\* The 4 orthogonal directions of a rook, the 4 diagonal ones of a bishop.
directions(type) ==
    {d \in (-1..1) \X (-1..1) :
        IF type = "ROOK" THEN Abs(d[1]) + Abs(d[2]) = 1
                         ELSE Abs(d[1]) = 1 /\ Abs(d[2]) = 1}

\* The cells of the board a rook or bishop may go to: in each direction the
\* cells with nothing but empty cells between them and the piece, that are
\* empty or hold a piece of the other player.
multi_square_targets(p) ==
    {c \in Coords :
        /\ \E d \in directions(p.type), k \in 1..7 :
              /\ stepped(current_coord[p], d, k) = get_index_from_coord(c)
              /\ \A j \in 1..(k - 1) :
                    game_board[stepped(current_coord[p], d, j)] = None
        /\ piece_at(c) = None \/ piece_at(c).player # p.player}

\* C17: the legal-move set of a rook or a bishop recomputed against a board
\* is, per direction, every consecutive empty cell starting next to the
\* piece, and the first occupied cell exactly when it holds a piece of the
\* other player; no cell beyond the first occupied cell and no cell of a
\* friendly piece is in it.
C17_MultiSquareMoves ==
    \A color \in Players :
       \A p \in {q \in chess_pieces[color] : q.type \in {"ROOK", "BISHOP"}} :
          /\ piece_update_valid_moves(p, current_coord[p], game_board)
                = multi_square_targets(p)
          /\ recomputed_last =>
                /\ valid_moves[p] = multi_square_targets(p)
                /\ \A c \in valid_moves[p] :
                      /\ c \in Coords
                      /\ piece_at(c) = None \/ piece_at(c).player # color
                /\ \A d \in directions(p.type), k \in 1..7 :
                      (/\ stepped(current_coord[p], d, k) \in Indexes
                       /\ game_board[stepped(current_coord[p], d, k)] # None)
                      => \A j \in (k + 1)..7 :
                            stepped(current_coord[p], d, j) \in Indexes =>
                               get_coord_from_index(stepped(current_coord[p], d, j))
                                  \notin valid_moves[p]

\* A white rook stands on e4 with a white knight on e6 and a black knight on
\* e2: its set has e5 and e2, and neither e6 nor e1.
C17_Witness ==
    LET rook == [player |-> "WHITE", type |-> "ROOK", id |-> 1]
    IN  /\ ret = "none"
        /\ piece_at(<<"e", "4">>) = rook
        /\ piece_at(<<"e", "6">>) = [player |-> "WHITE", type |-> "KNIGHT", id |-> 2]
        /\ piece_at(<<"e", "2">>) = [player |-> "BLACK", type |-> "KNIGHT", id |-> 1]
        /\ {<<"e", "5">>, <<"e", "2">>} \subseteq valid_moves[rook]
        /\ <<"e", "6">> \notin valid_moves[rook]
        /\ <<"e", "1">> \notin valid_moves[rook]

\* C18: after construction and after every call that returns True, each
\* player's aggregate move set is the union, over the pieces in the player's
\* piece set, of the legal-move set of the piece against the board as it
\* stands, which is also the set the piece has cached.
C18_AggregateIsUnion ==
    (ret = "none" \/ ret = "True") =>
        \A color \in Players :
           /\ all_valid_moves[color] =
                 UNION {piece_update_valid_moves(p, current_coord[p], game_board) :
                           p \in chess_pieces[color]}
           /\ all_valid_moves[color] = UNION {valid_moves[p] : p \in chess_pieces[color]}

\* After an accepted move white has two pieces, each with a cell in its set
\* that the other does not have.
C18_Witness ==
    /\ ret = "True"
    /\ \E p, q \in chess_pieces["WHITE"] :
          /\ valid_moves[p] \ valid_moves[q] # {}
          /\ valid_moves[q] \ valid_moves[p] # {}
          /\ valid_moves[p] \cup valid_moves[q] \subseteq all_valid_moves["WHITE"]

\* C19: get_index_from_coord undoes get_coord_from_index on every index
\* <<row, col>> with row and col in 0..7, and get_coord_from_index undoes
\* get_index_from_coord on every well-formed coordinate; so it does on the
\* coordinates the game holds as positions and as cached moves.
C19_ConversionsRoundTrip ==
    /\ \A index \in Indexes :
          get_index_from_coord(get_coord_from_index(index)) = index
    /\ \A coord \in Coords :
          get_coord_from_index(get_index_from_coord(coord)) = coord
    /\ \A color \in Players : \A p \in chess_pieces[color] :
          \A coord \in valid_moves[p] \cup {current_coord[p]} :
             /\ coord \in Coords
             /\ get_coord_from_index(get_index_from_coord(coord)) = coord

\* A piece has moved to a coordinate that get_coord_from_index put into its
\* cached set and stands on the cell get_index_from_coord gives for it.
C19_Witness ==
    /\ ret = "True"
    /\ source_coord # dest_coord
    /\ piece_at(dest_coord) # None
    /\ current_coord[piece_at(dest_coord)] = dest_coord
    /\ game_board[get_index_from_coord(get_coord_from_index(
           get_index_from_coord(dest_coord)))] = piece_at(dest_coord)

\* The file letters from a to h and the rank digits from 1 to 8, in order.
FileLetters == <<"a", "b", "c", "d", "e", "f", "g", "h">>

RankDigits == <<"1", "2", "3", "4", "5", "6", "7", "8">>

\* C20: for the coordinate of file letter f and rank digit r,
\* get_index_from_coord gives <<row, col>> with col the place of f in a..h
\* counted from 0 and row = 8 - r: rank 1 is row 7 and rank 8 is row 0.
C20_IndexOfCoord ==
    /\ \A i \in 1..8, j \in 1..8 :
          get_index_from_coord(<<FileLetters[i], RankDigits[j]>>) = <<8 - j, i - 1>>
    /\ \A f \in Files :
          /\ get_index_from_coord(<<f, "1">>)[1] = 7
          /\ get_index_from_coord(<<f, "8">>)[1] = 0
    /\ \A r \in Ranks :
          /\ get_index_from_coord(<<"a", r>>)[2] = 0
          /\ get_index_from_coord(<<"h", r>>)[2] = 7
    /\ \A color \in Players : \A p \in chess_pieces[color] :
          \E i \in 1..8, j \in 1..8 :
             /\ current_coord[p] = <<FileLetters[i], RankDigits[j]>>
             /\ get_index_from_coord(current_coord[p]) = <<8 - j, i - 1>>

\* The game built with a white rook on b8 has it on row 0, column 1, and
\* the white king of a7 on row 1, column 0.
C20_Witness ==
    /\ ret = "none"
    /\ [player |-> "WHITE", type |-> "ROOK", id |-> 1] \in chess_pieces["WHITE"]
    /\ current_coord[[player |-> "WHITE", type |-> "ROOK", id |-> 1]] = <<"b", "8">>
    /\ game_board[<<0, 1>>] = [player |-> "WHITE", type |-> "ROOK", id |-> 1]
    /\ current_coord[[player |-> "WHITE", type |-> "KING", id |-> 1]] = <<"a", "7">>
    /\ game_board[<<1, 0>>] = [player |-> "WHITE", type |-> "KING", id |-> 1]

\* C21: get_index_from_coord fails for every string that is not a file
\* letter a..h followed by a rank digit 1..8: whatever is passed as the source
\* of a move and is no coordinate makes the conversion raise, and so do the
\* strings "1a", "aa" and "11".
C21_MalformedCoordFails ==
    \A coord \in {source_coord, <<"1", "a">>, <<"a", "a">>, <<"1", "1">>} :
        coord \notin Coords => get_index_from_coord_raises(coord)

\* C22: a make_move call on an UNFINISHED game with a source or dest that is
\* no coordinate is signalled as an error, which is neither True nor the
\* False of a rejection, and leaves the board, the piece sets and the stored
\* positions as they are.
C22_MalformedInputIsSignalled ==
    [][(game_state = "UNFINISHED"
          /\ (source_coord' \notin Coords \/ dest_coord' \notin Coords)) =>
          /\ ret' = "raise"
          /\ UNCHANGED <<game_board, chess_pieces, current_coord>>]_vars

\* C23: in a game whose configurations give each side a king, called with
\* coordinates only, every make_move call completes and returns True or
\* False: none raises, the stalemate branch included.
C23_EveryCallReturnsABoolean ==
    (\A color \in Players : king[color] # None) =>
        ret \in {"none", "True", "False"}

\* The orders in which a Python loop can visit the elements of a set.
iteration_orders(set) ==
    {order \in [1..Cardinality(set) -> set] :
        \A i, j \in DOMAIN order : order[i] = order[j] => i = j}

\* Player.update_valid_moves, lines 524-525, visiting the pieces in the
\* given order: each piece in turn recomputes its set against the board.
RECURSIVE update_pieces_in_order(_, _, _, _)
update_pieces_in_order(order, coords, board, moves) ==
    IF order = <<>> THEN moves
    ELSE update_pieces_in_order(
             Tail(order), coords, board,
             [moves EXCEPT ![Head(order)] =
                 piece_update_valid_moves(Head(order), coords[Head(order)], board)])

\* Lines 528-529 with the aggregate assigned where the code updates it: the
\* aggregate ends as the set of the piece visited last.
RECURSIVE update_aggregate_in_order_assigning(_, _, _)
update_aggregate_in_order_assigning(order, moves, aggregate) ==
    IF order = <<>> THEN aggregate
    ELSE update_aggregate_in_order_assigning(Tail(order), moves, moves[Head(order)])

\* Player.update_valid_moves, lines 527-529, visiting the pieces in the
\* given order: the aggregate, reset by the caller, takes in the set of each
\* piece in turn.
RECURSIVE update_aggregate_in_order(_, _, _)
update_aggregate_in_order(order, moves, aggregate) ==
    IF order = <<>> THEN aggregate
    ELSE update_aggregate_in_order(Tail(order), moves,
                                   aggregate \cup moves[Head(order)])

\* ChessVar._update_valid_moves_for_all_players, white then black, with the
\* order in which each player's loops visit the collection.
_update_valid_moves_in_order(white_order, black_order, coords, board, moves, aggregates) ==
    LET white_moves == update_pieces_in_order(white_order, coords, board, moves)
        white_all   == [aggregates EXCEPT !["WHITE"] =
                            update_aggregate_in_order(white_order, white_moves, {})]
        black_moves == update_pieces_in_order(black_order, coords, board, white_moves)
        black_all   == [white_all EXCEPT !["BLACK"] =
                            update_aggregate_in_order(black_order, black_moves, {})]
    IN  [moves |-> black_moves, aggregates |-> black_all]

\* ChessVar._initialize_game, lines 271-275: _place_piece for each piece in
\* the order the loops visit the collections, on the given board.
RECURSIVE _place_pieces_in_order(_, _, _)
_place_pieces_in_order(order, coords, board) ==
    IF order = <<>> THEN board
    ELSE _place_pieces_in_order(
             Tail(order), coords,
             [board EXCEPT ![get_index_from_coord(coords[Head(order)])] = Head(order)])

\* The exits of make_move that _move_piece and its recomputation precede:
\* the rollback and the three returns of True.
exits_after_move_piece == {164, 177, 183, 191}

\* C24: make_move is deterministic whatever the order in which the loops
\* visit the players' piece sets.  For every order of the white and of the
\* black set, construction places the same board and computes the same
\* caches, and the recomputation inside every call that relocates a piece
\* gives the same per-piece sets and aggregates, which are all that the
\* return value, state, turn, edge list and board of this and later calls
\* are computed from.
C24_IterationOrderChangesNothing ==
    [][/\ ret = "none" =>
            \A white_order \in iteration_orders(chess_pieces["WHITE"]),
               black_order \in iteration_orders(chess_pieces["BLACK"]) :
                /\ game_board =
                     _place_pieces_in_order(
                         black_order, current_coord,
                         _place_pieces_in_order(white_order, current_coord,
                                                [index \in Indexes |-> None]))
                /\ [moves |-> valid_moves, aggregates |-> all_valid_moves] =
                     _update_valid_moves_in_order(
                         white_order, black_order, current_coord, game_board,
                         [p \in DOMAIN current_coord |-> {}],
                         [color \in Players |-> {}])
       /\ (exit_line' \in exits_after_move_piece /\ ~cant_move_anymore) =>
            \A g \in {_move_piece(source_coord', dest_coord')} :
                \A white_order \in iteration_orders(g.pieces["WHITE"]),
                   black_order \in iteration_orders(g.pieces["BLACK"]) :
                  \A fresh \in {_update_valid_moves_in_order(
                                    white_order, black_order, g.coords, g.board,
                                    valid_moves, all_valid_moves)} :
                    LET outcome == after_branches_outcome(
                                       [g EXCEPT !.moves = fresh.moves,
                                                 !.aggregates = fresh.aggregates],
                                       source_coord', dest_coord')
                    IN  /\ valid_moves' = fresh.moves
                        /\ all_valid_moves' = fresh.aggregates
                        /\ ret' = outcome.ret
                        /\ game_board' = outcome.board
                        /\ game_state' = outcome.state
                        /\ whos_turn_it_is' = outcome.turn]_vars

\* C24 witness: a move was accepted in a game where the player who then has
\* two pieces, so two visiting orders, has pieces with different sets.
C24_Witness ==
    /\ ret = "True"
    /\ \E color \in Players :
         \E p, q \in chess_pieces[color] : valid_moves[p] # valid_moves[q]

\* C25: between calls, every board cell that holds a piece holds a piece
\* whose stored position is the coordinate of that cell, and no piece is
\* held by two cells.
C25_BoardAndPositionsAgree ==
    /\ \A index \in Indexes :
          game_board[index] # None =>
              current_coord[game_board[index]] = get_coord_from_index(index)
    /\ \A index, other \in Indexes :
          (game_board[index] # None /\ game_board[index] = game_board[other]) =>
              index = other

\* C26: the kings-at-edge list never has more than two entries and never
\* names a player twice.
C26_EdgeListIsASet ==
    /\ Len(players_with_kings_in_last_row) <= 2
    /\ \A i, j \in DOMAIN players_with_kings_in_last_row :
          players_with_kings_in_last_row[i] = players_with_kings_in_last_row[j]
              => i = j

\* C26 witness: both players are in the list.
C26_Witness ==
    /\ Len(players_with_kings_in_last_row) = 2
    /\ ret = "True"

\* C27: in a game that starts with one king on each side, each king stays
\* in its owner's piece set and on the board cell its stored position names.
C27_KingsStayOnTheBoard ==
    \A color \in Players :
        /\ king[color] \in chess_pieces[color]
        /\ piece_at(current_coord[king[color]]) = king[color]

\* C28: an accepted make_move(source, dest) changes exactly two cells of the
\* board: source becomes empty and dest holds the piece that stood on
\* source, whose stored position becomes dest.  No other cell and no other
\* surviving piece's position changes, the mover's own piece set stays as it
\* is, and the only piece that can leave a set is the opposing piece that
\* stood on dest.
C28_AcceptedMoveChangesTwoCells ==
    [][ret' = "True" =>
          LET source_index == get_index_from_coord(source_coord')
              dest_index   == get_index_from_coord(dest_coord')
              moved        == game_board[source_index]
              taken        == game_board[dest_index]
          IN  /\ source_index # dest_index
              /\ moved # None
              /\ game_board'[source_index] = None
              /\ game_board'[dest_index] = moved
              /\ current_coord'[moved] = dest_coord'
              /\ \A index \in Indexes \ {source_index, dest_index} :
                    game_board'[index] = game_board[index]
              /\ \A p \in chess_pieces'["WHITE"] \cup chess_pieces'["BLACK"] :
                    p # moved => current_coord'[p] = current_coord[p]
              /\ chess_pieces'[whos_turn_it_is] = chess_pieces[whos_turn_it_is]
              /\ \A color \in Players :
                    /\ chess_pieces'[color] \subseteq chess_pieces[color]
                    /\ chess_pieces[color] \ chess_pieces'[color] \subseteq {taken}]_vars

\* C29: after a call rejected by the rollback the cached sets are those
\* computed against the tentative board, not the restored one.  The moved
\* piece is back on source; every piece of the tentative board, which are
\* the pieces of the collections less the one that stood on dest, has the
\* set that board gives it, the moved piece its moves from dest.  In the
\* game of the rook test the rejected a2->h2 leaves the rook on a2 with the
\* rook moves from h2, among them a2 and none of a3..a8.
C29_CachesOfTheTentativeBoard ==
    [][exit_line' = 164 =>
          LET mover     == piece_at(source_coord')
              captured  == piece_at(dest_coord')
              rook      == [player |-> "WHITE", type |-> "ROOK", id |-> 1]
              tentative == [game_board EXCEPT
                               ![get_index_from_coord(dest_coord')] = mover,
                               ![get_index_from_coord(source_coord')] = None]
          IN  /\ current_coord'[mover] = source_coord'
              /\ game_board'[get_index_from_coord(source_coord')] = mover
              /\ \A p \in (chess_pieces["WHITE"] \cup chess_pieces["BLACK"])
                             \ {captured} :
                    valid_moves'[p] =
                        piece_update_valid_moves(
                            p, IF p = mover THEN dest_coord' ELSE current_coord[p],
                            tentative)
              /\ (ret = "none" /\ source_coord' = <<"a", "2">>
                               /\ dest_coord' = <<"h", "2">>) =>
                    /\ current_coord'[rook] = <<"a", "2">>
                    /\ valid_moves'[rook] =
                          {<<f, "2">> : f \in Files \ {"h"}}
                             \cup {<<"h", r>> : r \in Ranks \ {"2"}}]_vars

\* C29 witness: the rook's a2->h2 has just been rolled back; the rook is on
\* a2 and its cached set, which contains a2, is not the set the restored
\* board gives it.
C29_Witness ==
    /\ exit_line = 164
    /\ source_coord = <<"a", "2">>
    /\ dest_coord = <<"h", "2">>
    /\ [player |-> "WHITE", type |-> "ROOK", id |-> 1] \in chess_pieces["WHITE"]
    /\ LET rook == [player |-> "WHITE", type |-> "ROOK", id |-> 1]
       IN  /\ current_coord[rook] = <<"a", "2">>
           /\ <<"a", "2">> \in valid_moves[rook]
           /\ valid_moves[rook] #
                 piece_update_valid_moves(rook, current_coord[rook], game_board)

\* Both players' recomputation in the other order: black, then white.
black_then_white(pieces, coords, board, moves, aggregates) ==
    LET black_moves == update_pieces("BLACK", pieces, coords, board, moves)
        black_all   == [aggregates EXCEPT !["BLACK"] =
                            update_aggregate("BLACK", pieces, black_moves)]
        white_moves == update_pieces("WHITE", pieces, coords, board, black_moves)
        white_all   == [black_all EXCEPT !["WHITE"] =
                            update_aggregate("WHITE", pieces, white_moves)]
    IN  [moves |-> white_moves, aggregates |-> white_all]

\* C30: recomputing white's sets and then black's against one board gives
\* the same per-piece sets and the same two aggregates as black's and then
\* white's: at construction and on the post-move board inside every call
\* that relocates a piece, whatever the caches held before, the code's
\* order leaves what the other order would.
C30_RecomputationCommutes ==
    [][/\ ret = "none" =>
             black_then_white(chess_pieces, current_coord, game_board,
                              [p \in DOMAIN current_coord |-> {}],
                              [color \in Players |-> {}])
               = [moves |-> valid_moves, aggregates |-> all_valid_moves]
       /\ (exit_line' \in exits_after_move_piece /\ ~cant_move_anymore) =>
             \A g \in {_move_piece(source_coord', dest_coord')} :
                 black_then_white(g.pieces, g.coords, g.board,
                                  valid_moves, all_valid_moves)
                   = [moves |-> valid_moves', aggregates |-> all_valid_moves']]_vars

\* C30 witness: a call has recomputed the sets of two players who both have
\* moves, on a board where a capture has left one player without a piece.
C30_Witness ==
    /\ ret = "True"
    /\ all_valid_moves["WHITE"] # {}
    /\ all_valid_moves["BLACK"] # {}
    /\ all_valid_moves["WHITE"] # all_valid_moves["BLACK"]
    /\ \E p \in DOMAIN current_coord : p \notin chess_pieces[p.player]

\* C31: whenever make_move can be invoked on an UNFINISHED game, the cached
\* move set of every piece on the board is the set a recomputation against
\* the board as it stands gives, so _move_is_valid never reads a set that
\* was computed for another board.
C31_CachesAreFreshBetweenCalls ==
    game_state = "UNFINISHED" =>
        \A index \in Indexes :
            game_board[index] # None =>
                valid_moves[game_board[index]] =
                    piece_update_valid_moves(
                        game_board[index], get_coord_from_index(index), game_board)

\* C32: an accepted move obeys the moving piece's movement rule on the
\* board of the call: dest is not source and is in the set of the piece on
\* source computed afresh against that board.
C32_AcceptedMoveObeysTheRule ==
    [][ret' = "True" =>
          /\ dest_coord' # source_coord'
          /\ piece_at(source_coord') # None
          /\ dest_coord' \in piece_update_valid_moves(
                                 piece_at(source_coord'), source_coord', game_board)]_vars

\* C33: no accepted move takes a piece out of the mover's own piece set.
C33_MoverKeepsOwnPieces ==
    [][ret' = "True" =>
          chess_pieces'[whos_turn_it_is] = chess_pieces[whos_turn_it_is]]_vars

\* C34: between calls the pieces the board cells hold are exactly the
\* members of the two players' piece sets: each member stands on exactly one
\* cell, and no cell holds a piece that is not in its owner's set.
C34_BoardHoldsExactlyTheSets ==
    /\ \A color \in Players :
          \A p \in chess_pieces[color] :
              \E index \in Indexes :
                  /\ game_board[index] = p
                  /\ \A other \in Indexes : game_board[other] = p => other = index
    /\ \A index \in Indexes :
          game_board[index] # None =>
              game_board[index] \in chess_pieces[game_board[index].player]

\* C34 witness: a capture stands, and a rollback has since put a piece back
\* on the board and into its owner's set.
C34_Witness ==
    /\ exit_line = 164
    /\ piece_at(dest_coord) # None
    /\ \E p \in DOMAIN current_coord : p \notin chess_pieces[p.player]

\* C35: the game state and the kings-at-edge list agree: the state is TIE
\* exactly when the list has two entries; WHITE_WON only with the list
\* <<WHITE>> and BLACK_WON only with <<BLACK>>; UNFINISHED only with at most
\* one entry, and with one entry the player to move is the one not listed.
C35_StateAgreesWithEdgeList ==
    /\ game_state = "TIE" <=> Len(players_with_kings_in_last_row) = 2
    /\ game_state = "WHITE_WON" => players_with_kings_in_last_row = <<"WHITE">>
    /\ game_state = "BLACK_WON" => players_with_kings_in_last_row = <<"BLACK">>
    /\ game_state = "UNFINISHED" =>
          /\ Len(players_with_kings_in_last_row) <= 1
          /\ Len(players_with_kings_in_last_row) = 1 =>
                whos_turn_it_is # players_with_kings_in_last_row[1]

\* C35 witness: one player is recorded and the game goes on with the other
\* player to move.
C35_Witness ==
    /\ game_state = "UNFINISHED"
    /\ Len(players_with_kings_in_last_row) = 1
    /\ whos_turn_it_is # players_with_kings_in_last_row[1]
    /\ ret = "True"

\* C36: while exactly one player is recorded in the kings-at-edge list of an
\* UNFINISHED game, a call that returns True ends the game as TIE, WHITE_WON
\* or BLACK_WON; a call that returns False leaves the state UNFINISHED and
\* the list as it is; and no accepted move is made by the recorded player.
C36_NextAcceptedMoveEndsTheGame ==
    [][(game_state = "UNFINISHED" /\ Len(players_with_kings_in_last_row) = 1) =>
          /\ ret' = "True" =>
                /\ game_state' \in {"TIE", "WHITE_WON", "BLACK_WON"}
                /\ piece_at(source_coord').player # players_with_kings_in_last_row[1]
          /\ ret' = "False" =>
                /\ game_state' = "UNFINISHED"
                /\ UNCHANGED players_with_kings_in_last_row]_vars

\* C36 witness: with one player recorded, the other player's accepted move
\* has ended the game as won.
C36_Witness ==
    /\ Len(players_with_kings_in_last_row) = 1
    /\ game_state \in {"WHITE_WON", "BLACK_WON"}
    /\ ret = "True"

====
